---- MODULE Spec2Model ----
(***************************************************************************)
(* Model of the Teltonika AVL stream decoder of                            *)
(* TeltonikaServer/teltonika_parser.py: iter_segments (Segmenter),         *)
(* find_timestamp_offset (Frame Locator), read_record (Record Decoder)     *)
(* and parse_avl_data (Stream Decoder).                                    *)
(*                                                                         *)
(* Representation.  A bytes object is a sequence of integers 0..255; a     *)
(* Python offset o addresses element o + 1.  A hex string is a sequence of *)
(* one-character strings.  Optional[T] is a sequence of length 0 (None) or *)
(* 1.  TLC integers have 32 bits, so the 64-bit timestamp is kept as its 8 *)
(* big-endian bytes and compared lexicographically (which is the order of  *)
(* int.from_bytes(.., "big") on equal lengths), and longitude/latitude are *)
(* kept as the signed 32-bit raw value (units of 1e-7 degree) instead of   *)
(* the float raw / 10_000_000.  IO values are kept as their raw bytes and  *)
(* converted where the code uses them.                                     *)
(***************************************************************************)
EXTENDS Integers, Sequences, FiniteSets, TLC

VARIABLES
    input,      \* ghost: the structured description the input was built from
    raw_hex,    \* parse_avl_data argument
    parts,      \* iter_segments: fragments of clean.split(...) not yet visited
    segment,    \* parse_avl_data: current segment / function argument data
    pos,        \* parse_avl_data: cursor / function argument start, ts_offset
    ts_offset,  \* parse_avl_data: last result of find_timestamp_offset
    records,    \* parse_avl_data: output list
    iters,      \* ghost: iterations of the while loop on the current segment
    segs,       \* ghost: the segments iter_segments has yielded so far
    ret,        \* result of a direct call of read_record / find_timestamp_offset
    pc          \* control position

vars == <<input, raw_hex, parts, segment, pos, ts_offset, records, iters, segs, ret, pc>>

-----------------------------------------------------------------------------
(* Python values *)

None == << >>
Some(v) == <<v>>

Max(a, b) == IF a >= b THEN a ELSE b
Min(a, b) == IF a <= b THEN a ELSE b

RECURSIVE Pow(_, _)
Pow(b, e) == IF e = 0 THEN 1 ELSE b * Pow(b, e - 1)

\* data[a:b] for 0 <= a: never raises, may be shorter than b - a
Slice(data, a, b) == SubSeq(data, a + 1, Min(b, Len(data)))

\* int.from_bytes(raw, "big") for values below 2^31
RECURSIVE FromBytes(_)
FromBytes(raw) ==
    IF raw = << >> THEN 0
    ELSE FromBytes(SubSeq(raw, 1, Len(raw) - 1)) * 256 + raw[Len(raw)]

\* int.to_bytes(n, "big") of v modulo 2^(8n): the synthetic encoder's side
ToBytes(v, n) == << >> \o [i \in 1..n |-> (v \div Pow(256, n - i)) % 256]

\* int.from_bytes(raw, "big") of up to 8 bytes, as 8 big-endian bytes
U64(raw) ==
    LET r == raw
    IN  << >> \o [i \in 1..8 |-> IF i <= 8 - Len(r) THEN 0 ELSE r[i - (8 - Len(r))]]

\* a <= b for two integers given as 8 big-endian bytes: no byte of a is
\* larger than b's after a common prefix
LeqBE(a, b) ==
    LET x == a
        y == b
    IN  ~\E i \in 1..Len(x) : x[i] > y[i] /\ \A j \in 1..(i - 1) : x[j] = y[j]

\* dict assignment d[k] = v
Put(d, k, v) == (k :> v) @@ d
EmptyDict == << >>

-----------------------------------------------------------------------------
(* Module constants *)

HEX_DELIMITER == <<"5", "9", "D", "9", "0", "0", "1", "0">>

\* 2015-01-01T00:00:00Z = 1420070400000 = 0x0000014AA2CAB000
MIN_TS_MS == <<0, 0, 1, 74, 162, 202, 176, 0>>
\* 2035-01-01T00:00:00Z = 2051222400000 = 0x000001DD9661EC00
MAX_TS_MS == <<0, 0, 1, 221, 150, 97, 236, 0>>

\* {0x0011: "x", 0x0012: "y", 0x0013: "z"}, by axis
ACCEL_IO_IDS == [x |-> 17, y |-> 18, z |-> 19]

-----------------------------------------------------------------------------
(* find_timestamp_offset *)

min_len == 8 + 1 + 4 + 4 + 2 + 2 + 1 + 2

\* MIN_TS_MS <= ts <= MAX_TS_MS
TsInWindow(ts) == LET t == ts IN LeqBE(MIN_TS_MS, t) /\ LeqBE(t, MAX_TS_MS)

\* end of range(start, max(len(data) - min_len, 0))
ScanEnd(data) == Max(Len(data) - min_len, 0)

\* faulty variant of SanityChecks: the satellite count is not examined
SanityNoSats(data, offset) ==
    /\ ~(offset + 9 >= Len(data))
    /\ ~(data[offset + 8 + 1] > 3)

\* sanity checks on priority + satellite count of the loop body; TRUE = return offset
SanityChecks(data, offset) ==
    LET sat_pos == offset + 8 + 1 + 4 + 4 + 2 + 2
        sats    == IF sat_pos < Len(data) THEN Some(data[sat_pos + 1]) ELSE None
    IN  /\ ~(offset + 9 >= Len(data))
        /\ ~(data[offset + 8 + 1] > 3)
        /\ ~(sats # None /\ sats[1] > 32)

\* the body of the for loop at one offset: "break" (window shorter than 8),
\* "continue" or "return"
Body(data, offset) ==
    LET window == Slice(data, offset, offset + 8) IN
    IF Len(window) < 8 THEN "break"
    ELSE IF ~TsInWindow(U64(window)) THEN "continue"
    ELSE IF ~SanityChecks(data, offset) THEN "continue"
    ELSE "return"

\* the for loop from offset on: the first offset of the range whose body does
\* not continue decides; the loop returns that offset, or None on a break
\* and at the end of the range
ScanFrom(data, offset) ==
    LET range == offset..(ScanEnd(data) - 1)
    IN  IF \A o \in range : Body(data, o) = "continue" THEN None
        ELSE LET first == CHOOSE o \in range :
                              /\ Body(data, o) # "continue"
                              /\ \A q \in offset..(o - 1) : Body(data, q) = "continue"
             IN  IF Body(data, first) = "break" THEN None ELSE Some(first)

\* faulty variant of find_timestamp_offset: the scan skips the offset start
FindAfterStart(data, start) == ScanFrom(data, start + 1)

find_timestamp_offset(data, start) == ScanFrom(data, start)

-----------------------------------------------------------------------------
(* _to_signed, _to_signed_int *)

\* faulty variant of _to_signed_int: subtracts the threshold, not the mask
ToSignedIntHalfMask(value, bits) ==
    LET threshold == Pow(2, bits - 1)
    IN  IF value >= threshold THEN value - threshold ELSE value

_to_signed_int(value, bits) ==
    LET threshold == Pow(2, bits - 1)
        mask      == Pow(2, bits)
    IN  IF value >= threshold THEN value - mask ELSE value

\* _to_signed(raw, bits): the unsigned value of a 32-bit field does not fit a
\* TLC integer, so the two's complement is taken on the top byte:
\* value - 2^bits = (top - 2^8) * 2^(bits - 8) + rest.
_to_signed(raw, bits) ==
    IF raw = << >> THEN 0
    ELSE _to_signed_int(raw[1], 8 - (8 * Len(raw) - bits)) * Pow(256, Len(raw) - 1)
         + FromBytes(Tail(raw))

-----------------------------------------------------------------------------
(* read_record *)

\* faulty variant of Fail: resumes after the bytes already consumed
FailPastConsumed(ts_off, ptr) == [rec |-> None, next |-> ptr + 1, raised |-> FALSE]

\* return None, ts_offset + 1 (ts_off is the parameter ts_offset)
Fail(ts_off, ptr) == [rec |-> None, next |-> ts_off + 1, raised |-> FALSE]

\* an index expression data[i] past the end raises IndexError
Raise(ts_off) == [rec |-> None, next |-> ts_off, raised |-> TRUE]

\* for size in (1, 2, 4, 8)
IoSizes == <<1, 2, 4, 8>>

\* for _ in range(count): entries[io_id] = value
RECURSIVE ReadEntries(_, _, _, _, _)
ReadEntries(data, ptr0, size, count, entries0) ==
    LET ptr     == ptr0
        entries == entries0
    IN
    IF count = 0 THEN [entries |-> entries, ptr |-> ptr]
    ELSE LET io_id == FromBytes(Slice(data, ptr, ptr + 2))
             value == Slice(data, ptr + 2, ptr + 2 + size)
         IN  ReadEntries(data, ptr + 2 + size, size, count - 1, Put(entries, io_id, value))

\* faulty variant of TruncatedTail: ptr stays where the group was found
TruncatedTailSkipGroup(data, ptr, groups) == [groups |-> groups, ptr |-> ptr]

\* the truncated tail: ptr = len(data); break
TruncatedTail(data, ptr, groups) == [groups |-> groups, ptr |-> Len(data)]

\* the loop over the four IO groups, from the k-th size on
RECURSIVE ParseGroups(_, _, _, _)
ParseGroups(data, ptr0, k, groups0) ==
    LET ptr    == ptr0
        groups == groups0
    IN
    IF k > Len(IoSizes) THEN [groups |-> groups, ptr |-> ptr]
    ELSE IF Len(data) - ptr < 2 THEN [groups |-> groups, ptr |-> ptr]
    ELSE LET size   == IoSizes[k]
             count  == FromBytes(Slice(data, ptr, ptr + 2))
             p      == ptr + 2
             needed == count * (2 + size)
         IN  IF count = 0 THEN ParseGroups(data, p, k + 1, groups)
             ELSE IF Len(data) - p < needed THEN TruncatedTail(data, p, groups)
             ELSE LET r == ReadEntries(data, p, size, count, EmptyDict)
                  IN  ParseGroups(data, r.ptr, k + 1, Put(groups, size, r.entries))

\* faulty variant of AccelRaw: the 1-byte group takes precedence
AccelRawPreferOneByte(groups, io_id) ==
    IF 1 \in DOMAIN groups /\ io_id \in DOMAIN groups[1]
    THEN Some(_to_signed_int(FromBytes(groups[1][io_id]), 8))
    ELSE IF 2 \in DOMAIN groups /\ io_id \in DOMAIN groups[2]
    THEN Some(_to_signed_int(FromBytes(groups[2][io_id]), 16))
    ELSE None

\* the accelerometer value of one axis id
AccelRaw(groups, io_id) ==
    IF 2 \in DOMAIN groups /\ io_id \in DOMAIN groups[2]
    THEN Some(_to_signed_int(FromBytes(groups[2][io_id]), 16))
    ELSE IF 1 \in DOMAIN groups /\ io_id \in DOMAIN groups[1]
    THEN Some(_to_signed_int(FromBytes(groups[1][io_id]), 8))
    ELSE None

\* for io_id, axis in ACCEL_IO_IDS.items(): accel_vals[axis] = raw
accel_vals(groups) ==
    LET g == groups
    IN  [x |-> AccelRaw(g, ACCEL_IO_IDS.x), y |-> AccelRaw(g, ACCEL_IO_IDS.y),
         z |-> AccelRaw(g, ACCEL_IO_IDS.z)]

\* the GPS block of the record at ts_off (ts already read)
GpsFields(data, ts_off, ts) ==
    [timestamp_ms |-> ts,
     priority     |-> data[ts_off + 8 + 1],
     lon          |-> _to_signed(Slice(data, ts_off + 9, ts_off + 13), 32),
     lat          |-> _to_signed(Slice(data, ts_off + 13, ts_off + 17), 32),
     altitude     |-> _to_signed(Slice(data, ts_off + 17, ts_off + 19), 16),
     angle        |-> FromBytes(Slice(data, ts_off + 19, ts_off + 21)),
     satellites   |-> data[ts_off + 21 + 1],
     speed        |-> FromBytes(Slice(data, ts_off + 22, ts_off + 24))]

\* AvlRecord(...)
AvlRecord(gps, accel) ==
    [timestamp_ms |-> gps.timestamp_ms, priority |-> gps.priority,
     lon |-> gps.lon, lat |-> gps.lat, altitude |-> gps.altitude,
     angle |-> gps.angle, satellites |-> gps.satellites, speed |-> gps.speed,
     accel |-> accel]

read_record(data, ts_off) ==
    IF Len(data) - ts_off < 32 THEN Fail(ts_off, ts_off)
    ELSE LET ts == U64(Slice(data, ts_off, ts_off + 8)) IN
    IF ~TsInWindow(ts) THEN Fail(ts_off, ts_off)
    ELSE IF ts_off + 8 >= Len(data) \/ ts_off + 21 >= Len(data) THEN Raise(ts_off)
    ELSE LET gps == GpsFields(data, ts_off, ts)
             ptr == ts_off + 24
         IN
    IF Len(data) - ptr < 4 THEN Fail(ts_off, ptr)
    ELSE LET event_id == FromBytes(Slice(data, ptr, ptr + 2))
             total_io == FromBytes(Slice(data, ptr + 2, ptr + 4))
         IN
    IF total_io > 256 THEN Fail(ts_off, ptr + 4)
    ELSE LET g == ParseGroups(data, ptr + 4, 1, EmptyDict)
         IN  [rec |-> Some(AvlRecord(gps, accel_vals(g.groups))), next |-> g.ptr,
              raised |-> FALSE]

-----------------------------------------------------------------------------
(* The synthetic encoder: a record in wire order.  r.g1, r.g2, r.g4, r.g8  *)
(* are sequences of <<io_id, raw value bytes>>, r.counts the four element  *)
(* counts written before them (a corrupted frame declares a wrong count).  *)

RECURSIVE EncodeEntries(_)
EncodeEntries(es) ==
    IF es = << >> THEN << >>
    ELSE ToBytes(es[1][1], 2) \o es[1][2] \o EncodeEntries(Tail(es))

EncodeGroup(count, es) == ToBytes(count, 2) \o EncodeEntries(es)

EncodeGps(r) ==
    r.ts \o <<r.priority>> \o ToBytes(r.lon, 4) \o ToBytes(r.lat, 4)
    \o ToBytes(r.altitude, 2) \o ToBytes(r.angle, 2) \o <<r.satellites>>
    \o ToBytes(r.speed, 2)

EncodeRecord(r) ==
    EncodeGps(r) \o ToBytes(r.event_id, 2) \o ToBytes(r.total_io, 2)
    \o EncodeGroup(r.counts[1], r.g1) \o EncodeGroup(r.counts[2], r.g2)
    \o EncodeGroup(r.counts[3], r.g4) \o EncodeGroup(r.counts[4], r.g8)

-----------------------------------------------------------------------------
(* iter_segments *)

HexDigits == <<"0", "1", "2", "3", "4", "5", "6", "7", "8", "9",
               "A", "B", "C", "D", "E", "F">>
LowerDigits == <<"0", "1", "2", "3", "4", "5", "6", "7", "8", "9",
                 "a", "b", "c", "d", "e", "f">>

IsSpace(c) == c = " "

\* the value of a hexadecimal digit of either case, 16 for any other character
DigitValue(c) ==
    IF \E i \in 1..16 : HexDigits[i] = c THEN (CHOOSE i \in 1..16 : HexDigits[i] = c) - 1
    ELSE IF \E i \in 1..16 : LowerDigits[i] = c
    THEN (CHOOSE i \in 1..16 : LowerDigits[i] = c) - 1
    ELSE 16

\* str.upper() on the characters of the model
UpperChar(c) ==
    IF \E i \in 11..16 : LowerDigits[i] = c
    THEN HexDigits[CHOOSE i \in 11..16 : LowerDigits[i] = c]
    ELSE IF c = "g" THEN "G" ELSE c

Upper(s) == LET t == s IN << >> \o [i \in 1..Len(t) |-> UpperChar(t[i])]

\* str.strip()
RECURSIVE LStrip(_)
LStrip(s) == IF s # << >> /\ IsSpace(s[1]) THEN LStrip(Tail(s)) ELSE s

RECURSIVE RStrip(_)
RStrip(s) ==
    IF s # << >> /\ IsSpace(s[Len(s)]) THEN RStrip(SubSeq(s, 1, Len(s) - 1)) ELSE s

Strip(s) == RStrip(LStrip(s))

\* str.find(sep): the first 1-based index of sep in s, 0 when there is none
Find(s, sep) ==
    LET t    == s
        hits == {j \in 1..(Len(t) - Len(sep) + 1) : SubSeq(t, j, j + Len(sep) - 1) = sep}
    IN  IF hits = {} THEN 0 ELSE CHOOSE j \in hits : \A k \in hits : j <= k

\* str.split(sep)
RECURSIVE Split(_, _)
Split(s, sep) ==
    LET t == s
        j == Find(t, sep)
    IN  IF j = 0 THEN <<t>>
        ELSE <<SubSeq(t, 1, j - 1)>> \o Split(SubSeq(t, j + Len(sep), Len(t)), sep)

NotSpace(c) == ~IsSpace(c)

\* bytes.fromhex(part): None stands for ValueError.  Whitespace is skipped
\* before a pair of digits, never between the two digits of a pair: the
\* conversion succeeds when every other character is a hexadecimal digit and
\* an even number of them precedes every whitespace character and the end.
FromHex(s) ==
    LET t == s
        digits == SelectSeq(t, NotSpace)
        before(i) == Len(SelectSeq(SubSeq(t, 1, i - 1), NotSpace))
    IN  IF /\ \A i \in 1..Len(digits) : DigitValue(digits[i]) < 16
           /\ Len(digits) % 2 = 0
           /\ \A i \in 1..Len(t) : IsSpace(t[i]) => before(i) % 2 = 0
        THEN Some(<< >> \o [k \in 1..(Len(digits) \div 2) |->
                              DigitValue(digits[2 * k - 1]) * 16 + DigitValue(digits[2 * k])])
        ELSE None

\* clean = raw_hex.strip().upper(); the list the for loop runs over
CleanParts(raw) ==
    LET clean == Upper(Strip(raw))
    IN  IF clean = << >> THEN << >> ELSE Split(clean, HEX_DELIMITER)

\* if len(part) % 2 != 0: part = part[:-1]
EvenPart(part) == IF Len(part) % 2 # 0 THEN SubSeq(part, 1, Len(part) - 1) ELSE part

RECURSIVE NextSegment(_)

\* faulty variant of OnValueError: the ValueError leaves the generator
OnValueErrorPropagate(rest) == [seg |-> None, rest |-> rest, raised |-> TRUE]

\* except ValueError: continue
OnValueError(rest) == NextSegment(rest)

\* one resumption of the generator: runs the for loop over the fragments ps
\* up to the next yield (seg = the bytes) or to its end (seg = None)
NextSegment(ps) ==
    LET todo == ps IN
    IF todo = << >> THEN [seg |-> None, rest |-> << >>, raised |-> FALSE]
    ELSE IF Head(todo) = << >> THEN NextSegment(Tail(todo))
    ELSE LET b == FromHex(EvenPart(Head(todo)))
         IN  IF b = None THEN OnValueError(Tail(todo))
             ELSE [seg |-> b, rest |-> Tail(todo), raised |-> FALSE]

-----------------------------------------------------------------------------
(* parse_avl_data.  pc = "start": before the first resumption of the       *)
(* generator; "segments": at the for statement, about to resume it;        *)
(* "scan": at the while statement; "done": returned records; "raised": an  *)
(* exception left the function.                                            *)

\* the fragments the generator has still to visit
PendingParts == IF pc = "start" THEN CleanParts(raw_hex) ELSE parts

\* for segment in iter_segments(raw_hex): the generator yields; pos = 0
YieldSegment ==
    /\ pc \in {"start", "segments"}
    /\ LET r == NextSegment(PendingParts)
       IN  /\ ~r.raised /\ r.seg # None
           /\ segment' = r.seg[1]
           /\ segs' = Append(segs, r.seg[1])
           /\ parts' = r.rest
    /\ pos' = 0
    /\ iters' = 0
    /\ pc' = "scan"
    /\ UNCHANGED <<input, raw_hex, ts_offset, records, ret>>

\* the generator is exhausted: return records (or its exception propagates)
EndOfSegments ==
    /\ pc \in {"start", "segments"}
    /\ LET r == NextSegment(PendingParts)
       IN  /\ r.raised \/ r.seg = None
           /\ parts' = r.rest
           /\ pc' = IF r.raised THEN "raised" ELSE "done"
    /\ UNCHANGED <<input, raw_hex, segment, pos, ts_offset, records, iters, segs, ret>>

\* while pos < len(segment) is false
LoopExit ==
    /\ pc = "scan"
    /\ ~(pos < Len(segment))
    /\ pc' = "segments"
    /\ UNCHANGED <<input, raw_hex, parts, segment, pos, ts_offset, records, iters, segs, ret>>

\* if ts_offset is None: break
LoopBreak ==
    /\ pc = "scan"
    /\ pos < Len(segment)
    /\ find_timestamp_offset(segment, pos) = None
    /\ ts_offset' = None
    /\ iters' = iters + 1
    /\ pc' = "segments"
    /\ UNCHANGED <<input, raw_hex, parts, segment, pos, records, segs, ret>>

\* faulty variant of RetryPos: the cursor stays on the located offset
RetryPosSame(off) == off

\* pos = ts_offset + 1
RetryPos(off) == off + 1

\* if rec is None: pos = ts_offset + 1; continue
LoopRetry ==
    /\ pc = "scan"
    /\ pos < Len(segment)
    /\ find_timestamp_offset(segment, pos) # None
    /\ LET off == find_timestamp_offset(segment, pos)[1]
           r   == read_record(segment, off)
       IN  /\ r.rec = None
           /\ ts_offset' = Some(off)
           /\ IF r.raised
              THEN pc' = "raised" /\ pos' = pos
              ELSE pc' = "scan" /\ pos' = RetryPos(off)
    /\ iters' = iters + 1
    /\ UNCHANGED <<input, raw_hex, parts, segment, records, segs, ret>>

\* records.append(rec); pos = max(next_pos, ts_offset + 1)
LoopAppend ==
    /\ pc = "scan"
    /\ pos < Len(segment)
    /\ find_timestamp_offset(segment, pos) # None
    /\ LET off == find_timestamp_offset(segment, pos)[1]
           r   == read_record(segment, off)
       IN  /\ r.rec # None
           /\ ts_offset' = Some(off)
           /\ records' = Append(records, r.rec[1])
           /\ pos' = Max(r.next, off + 1)
    /\ iters' = iters + 1
    /\ pc' = "scan"
    /\ UNCHANGED <<input, raw_hex, parts, segment, segs, ret>>

Next == YieldSegment \/ EndOfSegments \/ LoopExit \/ LoopBreak \/ LoopRetry \/ LoopAppend

(* Direct calls of the two pure functions on (segment, pos) *)

\* ret = read_record(segment, pos)
CallRead ==
    /\ pc = "call_read"
    /\ ret' = read_record(segment, pos)
    /\ pc' = "returned"
    /\ UNCHANGED <<input, raw_hex, parts, segment, pos, ts_offset, records, iters, segs>>

\* ret = find_timestamp_offset(segment, pos)
CallLocate ==
    /\ pc = "call_locate"
    /\ ret' = find_timestamp_offset(segment, pos)
    /\ pc' = "returned"
    /\ UNCHANGED <<input, raw_hex, parts, segment, pos, ts_offset, records, iters, segs>>

-----------------------------------------------------------------------------
(* Inputs.  An input is described by                                       *)
(*   recs  the records encoded into the segment, in order,                 *)
(*   gaps  the bytes before each record and after the last one,            *)
(*   cut   the number of bytes dropped from the end of the segment,        *)
(*   shift the distance of the call's offset from the first record,        *)
(*   frags, ws, lower  the fragments of a hex string, the whitespace       *)
(*         around it and the case of the delimiter (kind "hex").           *)

MaxPad == 1
MaxTail == 2
MaxFrags == 2

TsMid     == <<0, 0, 1, 128, 0, 0, 0, 5>>
TsLowByte == <<0, 0, 1, 128, 2, 0, 0, 0>>
MinMinus1 == <<0, 0, 1, 74, 162, 202, 175, 255>>
MaxPlus1  == <<0, 0, 1, 221, 150, 97, 236, 1>>

Zeros(n) == << >> \o [i \in 1..n |-> 0]

E1(id, v) == <<id, ToBytes(v, 1)>>
E2(id, v) == <<id, ToBytes(v, 2)>>
E4(id, v) == <<id, ToBytes(v, 4)>>
E8(id, v) == <<id, ToBytes(v, 4) \o ToBytes(v, 4)>>

Exact(g1, g2, g4, g8) == <<Len(g1), Len(g2), Len(g4), Len(g8)>>

Base ==
    [ts |-> TsMid, priority |-> 0, lon |-> 500000000, lat |-> -1, altitude |-> 0,
     angle |-> 0, satellites |-> 0, speed |-> 0, event_id |-> 0, total_io |-> 0,
     g1 |-> << >>, g2 |-> << >>, g4 |-> << >>, g8 |-> << >>, counts |-> <<0, 0, 0, 0>>]

WithGroups(r, g1, g2, g4, g8) ==
    [r EXCEPT !.g1 = g1, !.g2 = g2, !.g4 = g4, !.g8 = g8,
              !.counts = Exact(g1, g2, g4, g8),
              !.total_io = Len(g1) + Len(g2) + Len(g4) + Len(g8)]

G1Choices == {<< >>, <<E1(17, 128)>>, <<E1(17, 127), E1(18, 255), E1(240, 1)>>,
              <<E1(19, 0), E1(19, 129)>>}
G2Choices == {<< >>, <<E2(17, 32768)>>, <<E2(18, 32767), E2(19, 65535)>>,
              <<E2(17, 1), E2(17, 65534), E2(66, 3)>>}
G4Choices == {<< >>, <<E4(17, 70000)>>}
G8Choices == {<< >>, <<E8(18, 70000)>>}

\* records that differ in their IO groups
IoRecs ==
    {WithGroups(Base, g1, g2, g4, g8) :
        g1 \in G1Choices, g2 \in G2Choices, g4 \in G4Choices, g8 \in G8Choices}

\* records that differ in their GPS block, timestamp and IO total
GpsRecs ==
    {[Base EXCEPT !.ts = t, !.priority = p, !.lon = lo, !.lat = la, !.altitude = al,
                  !.angle = an, !.satellites = sa, !.speed = sp, !.total_io = tot] :
        t \in {MinMinus1, MIN_TS_MS, TsMid, MAX_TS_MS, MaxPlus1},
        p \in {0, 3}, lo \in {-2147483647 - 1, 500000000, 2147483647},
        la \in {-1, 0}, al \in {-32768, -1, 32767}, an \in {0, 65535},
        sa \in {0, 32}, sp \in {0, 65535}, tot \in {0, 256, 257}}

\* two complete records used where the record itself is not what varies
RecA == WithGroups([Base EXCEPT !.altitude = -32768, !.satellites = 7],
                   <<E1(18, 255)>>, <<E2(17, 32768)>>, << >>, << >>)
RecB == WithGroups([Base EXCEPT !.ts = TsLowByte, !.altitude = 5, !.speed = 7,
                                !.priority = 1],
                   <<E1(19, 127)>>, << >>, << >>, << >>)
RecC == [Base EXCEPT !.ts = MAX_TS_MS, !.lon = -1, !.satellites = 32, !.priority = 3]

\* the segment of an input
RECURSIVE Concat(_, _)
Concat(recs, gaps) ==
    IF recs = << >> THEN gaps[1]
    ELSE gaps[1] \o EncodeRecord(recs[1]) \o Concat(Tail(recs), Tail(gaps))

Build(in) ==
    LET all == Concat(in.recs, in.gaps)
    IN  SubSeq(all, 1, Len(all) - in.cut)

\* the offset of the first record of an input
FirstStart(in) == Len(in.gaps[1])

HexEncode(bytes) ==
    LET b == bytes
    IN  << >> \o [i \in 1..(2 * Len(b)) |->
                      IF i % 2 = 1 THEN HexDigits[(b[(i + 1) \div 2] \div 16) + 1]
                      ELSE HexDigits[(b[i \div 2] % 16) + 1]]

LowerHex(bytes) ==
    LET b == bytes
    IN  << >> \o [i \in 1..(2 * Len(b)) |->
                      IF i % 2 = 1 THEN LowerDigits[(b[(i + 1) \div 2] \div 16) + 1]
                      ELSE LowerDigits[(b[i \div 2] % 16) + 1]]

In(kind, recs, gaps, cut, shift) ==
    [kind |-> kind, recs |-> recs, gaps |-> gaps, cut |-> cut, shift |-> shift,
     frags |-> << >>, ws |-> << >>, lower |-> FALSE]

-----------------------------------------------------------------------------
(* Specification of the direct calls of read_record *)

ShortRecs == {RecA, RecC, WithGroups(Base, <<E1(17, 1)>>, <<E2(18, 2)>>,
                                     <<E4(17, 70000)>>, <<E8(18, 70000)>>)}

ReadInputs ==
    {In("gps", <<r>>, <<Zeros(p), << >> >>, 0, 0) : r \in GpsRecs, p \in 0..MaxPad}
    \cup {In("io", <<r>>, <<Zeros(p), Zeros(t)>>, 0, 0) :
            r \in IoRecs, p \in 0..MaxPad, t \in 0..MaxTail}
    \cup UNION {{In("short", <<r>>, <<Zeros(p), << >> >>, c, 0) :
                    c \in 1..Len(EncodeRecord(r)), p \in 0..MaxPad} : r \in ShortRecs}
    \cup {In("shift", <<r>>, << << >>, Zeros(t)>>, 0, sh) :
            r \in {RecA, RecB}, t \in 0..MaxTail, sh \in {1, 2, 8, 24}}

Idle ==
    /\ raw_hex = << >>
    /\ parts = << >>
    /\ ts_offset = None
    /\ records = << >>
    /\ iters = 0
    /\ segs = << >>
    /\ ret = None

InitRead ==
    /\ input \in ReadInputs
    /\ segment = Build(input)
    /\ pos = FirstStart(input) + input.shift
    /\ pc = "call_read"
    /\ Idle

SpecRead == InitRead /\ [][CallRead]_vars

-----------------------------------------------------------------------------
(* What the specification expects of an encoded record *)

\* timestamps of the inputs inside and outside [MIN_TS_MS, MAX_TS_MS]
InsideTs  == {MIN_TS_MS, TsMid, TsLowByte, MAX_TS_MS}
OutsideTs == {MinMinus1, MaxPlus1}

\* two's complement of the unsigned value v on the given width
TwosComplement(v, bits) ==
    ((v + Pow(2, bits - 1)) % Pow(2, bits)) - Pow(2, bits - 1)

HasId(g, id) == \E i \in 1..Len(g) : g[i][1] = id

\* the value of the last element of group g with this id
LastValue(g, id) ==
    FromBytes(g[CHOOSE i \in 1..Len(g) :
                  g[i][1] = id /\ \A j \in (i + 1)..Len(g) : g[j][1] # id][2])

\* the axis value when the groups before the upto-th one were parsed
ClaimedAxis(r, id, upto) ==
    IF upto > 2 /\ HasId(r.g2, id) THEN Some(TwosComplement(LastValue(r.g2, id), 16))
    ELSE IF upto > 1 /\ HasId(r.g1, id) THEN Some(TwosComplement(LastValue(r.g1, id), 8))
    ELSE None

ClaimedAccel(r, upto) ==
    [x |-> ClaimedAxis(r, 17, upto), y |-> ClaimedAxis(r, 18, upto),
     z |-> ClaimedAxis(r, 19, upto)]

\* the decoded record of r when the groups before the upto-th one were parsed
Decoded(r, upto) ==
    [timestamp_ms |-> r.ts, priority |-> r.priority, lon |-> r.lon, lat |-> r.lat,
     altitude |-> r.altitude, angle |-> r.angle, satellites |-> r.satellites,
     speed |-> r.speed, accel |-> ClaimedAccel(r, upto)]

Original(r) == Decoded(r, 5)

-----------------------------------------------------------------------------
(* Properties of read_record, under SpecRead *)

\* C4: whenever read_record returns no record the next offset is offset + 1;
\* a complete record is rejected when its timestamp is MIN_TS_MS - 1 or
\* MAX_TS_MS + 1 or its total_io exceeds 256, and accepted when its timestamp
\* is exactly MIN_TS_MS or MAX_TS_MS and total_io <= 256 (256 included).
C4_FailurePolicy ==
    pc = "returned" =>
        /\ ~ret.raised
        /\ ret.rec = None => ret.next = pos + 1
        /\ input.kind = "short" /\ Len(segment) - pos < min_len => ret.rec = None
        /\ input.kind = "gps" =>
            LET r == input.recs[1]
            IN  /\ r.ts \in OutsideTs => ret.rec = None
                /\ r.total_io > 256 => ret.rec = None
                /\ r.ts \in InsideTs /\ r.total_io <= 256 => ret.rec # None

C4_Witness ==
    /\ pc = "returned"
    /\ input.kind = "gps"
    /\ input.recs[1].ts = MIN_TS_MS
    /\ input.recs[1].total_io = 257
    /\ pos > 0
    /\ ret.rec = None
    /\ ret.next = pos + 1

\* C8: each axis of a decoded record is the 2-byte group's value as signed
\* 16-bit when its id is in the 2-byte group, else the 1-byte group's value as
\* signed 8-bit, else absent.
C8_Acceleration ==
    pc = "returned" /\ input.kind = "io" =>
        /\ ret.rec # None
        /\ ret.rec[1].accel = ClaimedAccel(input.recs[1], 5)

C8_Witness ==
    /\ pc = "returned"
    /\ input.kind = "io"
    /\ HasId(input.recs[1].g1, 17)
    /\ HasId(input.recs[1].g2, 17)
    /\ ret.rec # None
    /\ ret.rec[1].accel.x = Some(-32768)
    /\ ret.rec[1].accel.z = None

\* C9: read_record at the start of a valid encoded record returns the
\* original field values and the offset just past the record; 16-bit raw
\* 0x8000 decodes to -32768 and 0x7FFF to 32767.
C9_RoundTrip ==
    pc = "returned" /\ input.kind \in {"gps", "io"}
    /\ input.recs[1].ts \in InsideTs /\ input.recs[1].total_io <= 256 =>
        /\ ret.rec = Some(Original(input.recs[1]))
        /\ ret.next = pos + Len(EncodeRecord(input.recs[1]))
        /\ Slice(segment, pos + 17, pos + 19) = <<128, 0>> => ret.rec[1].altitude = -32768
        /\ Slice(segment, pos + 17, pos + 19) = <<127, 255>> => ret.rec[1].altitude = 32767

C9_Witness ==
    /\ pc = "returned"
    /\ input.kind = "gps"
    /\ input.recs[1].ts = MAX_TS_MS
    /\ input.recs[1].altitude = -32768
    /\ input.recs[1].lon = -2147483647 - 1
    /\ pos > 0
    /\ ret.rec # None
    /\ ret.rec[1].altitude = -32768
    /\ ret.rec[1].lon < 0
    /\ ret.next = pos + 36

-----------------------------------------------------------------------------
(* Specification of the direct calls of find_timestamp_offset *)

LocRecs ==
    {[Base EXCEPT !.ts = t, !.priority = p, !.satellites = sa] :
        t \in {MinMinus1, MIN_TS_MS, TsMid, MAX_TS_MS, MaxPlus1},
        p \in {0, 3, 4}, sa \in {32, 33}}

\* buffers with one candidate frame and 23, 24, 25 or 36 bytes from its start
\* on, and buffers with two candidate frames; shift is the start argument
LocateInputs ==
    {In("loc", <<r>>, <<Zeros(p), << >> >>, c, st) :
        r \in LocRecs, p \in 0..MaxPad, c \in {0, 11, 12, 13}, st \in 0..(MaxPad + 1)}
    \cup {In("loc2", <<r, q>>, <<Zeros(p), << >>, << >> >>, c, st) :
            r \in LocRecs, q \in {RecB, RecC}, p \in 0..MaxPad, c \in {0, 11, 12},
            st \in {0, 1}}

InitLocate ==
    /\ input \in LocateInputs
    /\ segment = Build(input)
    /\ pos = input.shift
    /\ pc = "call_locate"
    /\ Idle

SpecLocate == InitLocate /\ [][CallLocate]_vars

\* offsets at or after start that the specification accepts as record starts
\* when at least need bytes must remain
PlausibleAt(data, o, need) ==
    /\ Len(data) - o >= need
    /\ o + 8 < Len(data)
    /\ LeqBE(MIN_TS_MS, Slice(data, o, o + 8))
    /\ LeqBE(Slice(data, o, o + 8), MAX_TS_MS)
    /\ data[o + 8 + 1] <= 3
    /\ (o + 21 >= Len(data) \/ data[o + 21 + 1] <= 32)

Plausible(data, start, need) == {o \in start..(Len(data) - 1) : PlausibleAt(data, o, need)}

Lowest(S) == IF S = {} THEN None ELSE Some(CHOOSE o \in S : \A q \in S : o <= q)

\* C7: find_timestamp_offset returns the lowest offset o >= start with at
\* least 24 bytes remaining, a timestamp window in [MIN_TS_MS, MAX_TS_MS],
\* priority <= 3 and satellites absent or <= 32, and None only when there is
\* no such offset.
C7_LocatorLowestPlausible ==
    pc = "returned" => ret = Lowest(Plausible(segment, pos, 24))

\* the same with at least 25 bytes remaining (what range(start, len - 24) scans)
C7_LocatorStrictBound ==
    pc = "returned" => ret = Lowest(Plausible(segment, pos, 25))

-----------------------------------------------------------------------------
(* Specification of parse_avl_data *)

GarbageBytes == {0, 1, 128, 255}

\* one valid record, 5 bytes of garbage, another valid record
GarbageInputs ==
    {In("garbage", <<a, b>>, << << >>, g, << >> >>, 0, 0) :
        a \in {RecA, RecC}, b \in {RecB, RecC}, g \in [1..5 -> GarbageBytes]}

\* frames corrupted in one field
CorruptRecs ==
    {[RecA EXCEPT !.total_io = 257], [RecA EXCEPT !.counts[1] = 65535],
     [RecA EXCEPT !.counts[2] = 65535], [RecA EXCEPT !.priority = 4],
     [RecA EXCEPT !.satellites = 33], [RecA EXCEPT !.ts = MaxPlus1],
     [RecC EXCEPT !.total_io = 257], [RecC EXCEPT !.counts[4] = 65535],
     [RecC EXCEPT !.satellites = 33]}

\* a corrupted frame followed by a complete valid record
CorruptInputs ==
    {In("corrupt", <<c, b>>, << << >>, << >>, Zeros(t)>>, 0, 0) :
        c \in CorruptRecs, b \in {RecB, RecC}, t \in 0..MaxTail}

\* the bytes of r that follow the count field of its k-th group
AfterCount(r, k) ==
    LET gs == <<r.g1, r.g2, r.g4, r.g8>>
        RECURSIVE Rest(_)
        Rest(j) == IF j > 4 THEN 0 ELSE 2 + Len(EncodeEntries(gs[j])) + Rest(j + 1)
    IN  Len(EncodeEntries(gs[k])) + Rest(k + 1)

\* the first group of r whose declared count is not its number of elements
WrongCount(r) ==
    LET gs == <<r.g1, r.g2, r.g4, r.g8>>
        ks == {k \in 1..4 : r.counts[k] # Len(gs[k])}
    IN  CHOOSE k \in ks : \A j \in ks : k <= j

TruncBases ==
    {WithGroups(Base, g1, <<E2(17, 1), E2(18, 32768), E2(19, 3)>>, g4, << >>) :
        g1 \in G1Choices, g4 \in G4Choices}

\* a valid record followed by a last record one of whose groups declares more
\* elements than the bytes that remain can hold
TruncInputs ==
    {in \in {In("trunc", <<a, [t EXCEPT !.counts[k] = n]>>, << << >>, << >>, << >> >>, c, 0) :
                a \in {RecA, RecC}, t \in TruncBases, k \in 1..4, n \in {5, 65535},
                c \in {0, 4}} :
        LET t == in.recs[2]
            k == WrongCount(t)
        IN  /\ in.cut <= AfterCount(t, k)
            /\ t.counts[k] * (2 + IoSizes[k]) > AfterCount(t, k) - in.cut}

\* a valid record followed by the first 24, 25, 31 or 32 bytes of another
ShortTailInputs ==
    {In("short2", <<a, b>>, << << >>, << >>, << >> >>, Len(EncodeRecord(b)) - n, 0) :
        a \in {RecA, RecC}, b \in {RecB, RecC}, n \in {24, 25, 31, 32}}

(* hex strings: each fragment comes with the segment the specification     *)
(* expects of it (None when it is dropped) and the records of that segment *)
Frag(text, seg, recs) == [text |-> text, seg |-> seg, recs |-> recs]

FragChoices ==
    {Frag(<< >>, None, << >>),
     Frag(HexEncode(EncodeRecord(RecA)), Some(EncodeRecord(RecA)), <<Original(RecA)>>),
     Frag(LowerHex(EncodeRecord(RecB)), Some(EncodeRecord(RecB)), <<Original(RecB)>>),
     Frag(HexEncode(EncodeRecord(RecC)) \o <<"7">>, Some(EncodeRecord(RecC)),
          <<Original(RecC)>>),
     Frag(HexEncode(SubSeq(EncodeRecord(RecA), 1, 30)),
          Some(SubSeq(EncodeRecord(RecA), 1, 30)), << >>),
     Frag(<<"1">>, Some(<< >>), << >>),
     Frag(<<"G", "G">>, None, << >>),
     Frag(HexEncode(EncodeRecord(RecA)) \o <<"g", "0">>, None, << >>),
     Frag(<<"1", "2", " ", "3", "4">>, None, << >>)}

RECURSIVE FragSeqs(_)
FragSeqs(n) ==
    IF n = 0 THEN {<< >>}
    ELSE FragSeqs(n - 1)
         \cup {Append(fs, f) : fs \in {x \in FragSeqs(n - 1) : Len(x) = n - 1},
                               f \in FragChoices}

HexInputs ==
    {[kind |-> "hex", recs |-> << >>, gaps |-> << << >> >>, cut |-> 0, shift |-> 0,
      frags |-> fs, ws |-> w, lower |-> lo] :
        fs \in FragSeqs(MaxFrags), w \in {<< >>, <<" ">>}, lo \in BOOLEAN}

RECURSIVE Join(_, _)
Join(fs, sep) ==
    IF fs = << >> THEN << >>
    ELSE IF Len(fs) = 1 THEN fs[1].text
    ELSE fs[1].text \o sep \o Join(Tail(fs), sep)

LowerDelimiter == <<"5", "9", "d", "9", "0", "0", "1", "0">>

\* the hex string handed to parse_avl_data
RawOf(in) ==
    IF in.kind = "hex"
    THEN in.ws \o Join(in.frags, IF in.lower THEN LowerDelimiter ELSE HEX_DELIMITER)
         \o in.ws
    ELSE HexEncode(Build(in))

StreamInputs ==
    GarbageInputs \cup CorruptInputs \cup TruncInputs \cup ShortTailInputs \cup HexInputs

Init ==
    /\ input \in StreamInputs
    /\ raw_hex = RawOf(input)
    /\ parts = << >>
    /\ segment = << >>
    /\ pos = 0
    /\ ts_offset = None
    /\ records = << >>
    /\ iters = 0
    /\ segs = << >>
    /\ ret = None
    /\ pc = "start"

Spec == Init /\ [][Next]_vars

-----------------------------------------------------------------------------
(* Properties of parse_avl_data, under Spec *)

\* C1: a corrupted frame (its decode fails, or one of its IO group counts
\* exceeds the bytes remaining) never blocks the complete valid record that
\* follows it in the segment: that record is in the output.
C1_CorruptFrameDoesNotBlock ==
    pc = "done" /\ input.kind = "corrupt" =>
        \E i \in 1..Len(records) : records[i] = Original(input.recs[2])

\* C2: on every iteration of the scan the located offset is at or after the
\* cursor and the cursor grows strictly (to next_offset on success, to
\* located_offset + 1 on failure); a segment takes at most len(segment)
\* iterations.
C2_ScanTerminates ==
    [][/\ iters' <= Len(segment')
       /\ pc = "scan" /\ iters' = iters + 1 /\ ts_offset' # None =>
            /\ ts_offset'[1] >= pos
            /\ pos' > pos
            /\ pos' = IF Len(records') > Len(records)
                      THEN read_record(segment, ts_offset'[1]).next
                      ELSE ts_offset'[1] + 1]_vars

C2_Witness ==
    /\ pc = "scan"
    /\ input.kind = "corrupt"
    /\ input.recs[1].total_io = 257
    /\ iters = 2
    /\ Len(records) = 1
    /\ ts_offset = Some(Len(EncodeRecord(input.recs[1])))
    /\ pos > ts_offset[1]

\* C3 as stated: one valid record, 5 bytes of garbage of any values, another
\* valid record give exactly the two records, in order.
C3_AnyGarbage ==
    pc = "done" /\ input.kind = "garbage" =>
        records = <<Original(input.recs[1]), Original(input.recs[2])>>

\* no offset inside the garbage of a "garbage" input looks like a record start
NoPlausibleGarbage(in) ==
    LET data == Build(in)
        g0   == Len(EncodeRecord(in.recs[1]))
    IN  \A o \in g0..(g0 + 4) : ~PlausibleAt(data, o, 0)

\* C3 amended: one valid record, 5 bytes of garbage none of whose offsets
\* starts a window with a timestamp in [MIN_TS_MS, MAX_TS_MS], a priority byte
\* <= 3 and a satellite byte <= 32, another valid record give exactly the two
\* records, in order, with the field values they were encoded from.
C3_ImplausibleGarbage ==
    pc = "done" /\ input.kind = "garbage" /\ NoPlausibleGarbage(input) =>
        records = <<Original(input.recs[1]), Original(input.recs[2])>>

C3_Witness ==
    /\ pc = "done"
    /\ input.kind = "garbage"
    /\ input.gaps[2] = <<0, 0, 1, 128, 255>>
    /\ input.recs[2] = RecB
    /\ NoPlausibleGarbage(input)
    /\ records = <<Original(input.recs[1]), Original(RecB)>>

\* C5: a record one of whose IO groups declares more elements than the
\* remaining bytes hold is still returned, with its GPS fields and the groups
\* parsed before that group; the axes found only in that or a later group are
\* absent, the cursor goes to the end of the segment, nothing is raised, and
\* the record appended before it is unchanged.
C5_TruncatedGroup ==
    /\ pc # "raised"
    /\ input.kind = "trunc" /\ Len(records) >= 1 => records[1] = Original(input.recs[1])
    /\ input.kind = "trunc" /\ Len(records) >= 2 =>
        /\ records = <<Original(input.recs[1]),
                       Decoded(input.recs[2], WrongCount(input.recs[2]))>>
        /\ pos = Len(segment)

C5_Witness ==
    /\ input.kind = "trunc"
    /\ input.recs[2].counts[2] = 5
    /\ Len(input.recs[2].g2) = 3
    /\ input.recs[2].g1 = <<E1(17, 128)>>
    /\ input.cut = 4
    /\ Len(records) = 2
    /\ records[2].accel = [x |-> Some(-128), y |-> None, z |-> None]
    /\ pos = Len(segment)

\* C6: every record of the output has its timestamp in
\* [MIN_TS_MS, MAX_TS_MS], a priority in 0..3 and at most 32 satellites.
C6_PlausibleOutput ==
    \A i \in 1..Len(records) :
        /\ LeqBE(MIN_TS_MS, records[i].timestamp_ms)
        /\ LeqBE(records[i].timestamp_ms, MAX_TS_MS)
        /\ records[i].priority \in 0..3
        /\ records[i].satellites <= 32

C6_Witness ==
    /\ pc = "done"
    /\ input.kind = "corrupt"
    /\ input.recs[1].satellites = 33
    /\ records = <<Original(input.recs[2])>>

\* the segments and the records the specification expects of a hex input
RECURSIVE ExpectedSegs(_)
ExpectedSegs(fs) == IF fs = << >> THEN << >> ELSE fs[1].seg \o ExpectedSegs(Tail(fs))

RECURSIVE ExpectedRecs(_)
ExpectedRecs(fs) == IF fs = << >> THEN << >> ELSE fs[1].recs \o ExpectedRecs(Tail(fs))

\* C10: no exception leaves parse_avl_data; an empty or delimiter-only string
\* gives no segment, a fragment that fails the hex conversion is dropped, and
\* the fragments after it are still segmented and decoded.
C10_NoErrorEscapes ==
    /\ pc # "raised"
    /\ pc = "done" /\ input.kind = "hex" =>
        /\ segs = ExpectedSegs(input.frags)
        /\ records = ExpectedRecs(input.frags)

C10_Witness ==
    /\ pc = "done"
    /\ input.kind = "hex"
    /\ Len(input.frags) = 2
    /\ input.frags[1].text = <<"G", "G">>
    /\ input.frags[2].recs = <<Original(RecB)>>
    /\ Len(segs) = 1
    /\ records = <<Original(RecB)>>

====
